---- MODULE Spec2Model ----
(***************************************************************************)
(* The low-power UARTE driver of embassy-nrf (src/embassy-nrf/src/uarte.rs) *)
(* as a state machine: the foreground (one cooperative execution context)  *)
(* runs send / receive / poll / drop / stop / free one register access at  *)
(* a time, the interrupt handler on_irq preempts it between any two        *)
(* accesses and runs to completion, and the UARTE hardware advances its    *)
(* two EasyDMA engines on its own.                                         *)
(***************************************************************************)
EXTENDS Integers, Sequences, FiniteSets, TLC

\* Longest buffer a caller passes to send() / receive().
MaxLen == 2

\* Saturation value of the per-operation count of start commands.
MaxStarts == 2

\* EASY_DMA_SIZE of the target (255 or 65535 on real parts), scaled so that
\* buffers on both sides of the bound exist.
EASY_DMA_SIZE == MaxLen - 1

\* The value of type () carried by Signal<()> and by Ok(()).
Unit == <<>>

VARIABLES
    \* ---- UARTE registers
    enable,            \* ENABLE: TRUE = enabled
    events_endtx,
    events_txstarted,
    events_txstopped,
    events_endrx,
    events_rxstarted,
    events_rxto,
    txbuf,             \* whose buffer the TX EasyDMA channel is working on
    txd_maxcnt,
    rxbuf,             \* whose buffer the RX EasyDMA channel is working on
    rxd_maxcnt,
    rxd_amount,
    \* ---- UARTE internal state
    txdma,             \* transmitter / its EasyDMA channel
    rxdma,             \* receiver / its EasyDMA channel
    rxcnt,             \* bytes written to the RX buffer by the running transfer
    \* ---- static State { tx_done, rx_done }
    tx_done,           \* Signal<()>  : <<>> or <<Unit>>
    rx_done,           \* Signal<u32> : <<>> or <<n>>
    \* ---- foreground
    fut,               \* the operation object that currently borrows the driver
    buflen,            \* length of the buffer it borrows
    nstart,            \* start commands issued on behalf of that object
    op,                \* the function the foreground is executing
    pc,                \* its position in that function
    wlog,              \* hardware writes made by this invocation, in order
    result,            \* what the invocation returns
    everPolled,        \* some operation has been polled since construction
    \* ---- which hardware instance the driver is built on (the type T)
    inst,
    \* ---- what the handler invocation that has just returned saw and did
    irqseen,
    \* ---- PeripheralMutex<S> (embassy-rp/src/util/peripheral.rs)
    life,              \* the Life tag
    inner,             \* the Option holding (state, irq)
    irq_enabled,       \* the bound interrupt line is enabled
    irq_pending,       \* the bound interrupt line is pending
    irq_handler,       \* the handler attached to the line
    mstate,            \* the caller's state S
    mop,               \* the mutex function the foreground is executing
    mpc,               \* its position in that function
    mres,              \* what the invocation returns
    ndetach            \* disable + remove_handler sequences run so far

hwRegs == <<enable, events_endtx, events_txstarted, events_txstopped,
            events_endrx, events_rxstarted, events_rxto,
            txd_maxcnt, rxd_maxcnt, rxd_amount>>
hwInt  == <<txdma, rxdma, rxcnt, txbuf, rxbuf>>
sigs   == <<tx_done, rx_done>>
fg     == <<fut, buflen, nstart, op, pc, wlog, result, everPolled>>
mutex  == <<life, inner, irq_enabled, irq_pending, irq_handler, mstate,
            mop, mpc, mres, ndetach>>
uarte  == <<hwRegs, hwInt, sigs, fg, inst, irqseen>>
vars   == <<uarte, mutex>>

\* The hardware instances a driver can be built on (impl Instance for ...).
Instances == {"UARTE0", "UARTE1"}

\* No handler invocation has just returned.
NoIrq == [ran |-> FALSE, endtx |-> FALSE, txstopped |-> FALSE,
          endrx |-> FALSE, rxto |-> FALSE, txstarted |-> FALSE,
          rxstarted |-> FALSE, amount |-> 0, off |-> FALSE]

\* A step of the foreground or of the hardware: no PeripheralMutex is
\* involved and the driver stays on its instance.
OutsideIrq == irqseen' = NoIrq /\ UNCHANGED <<inst, mutex>>

\* No PeripheralMutex has been constructed.
NoMutex ==
    /\ life = "none" /\ inner = "none"
    /\ irq_enabled = FALSE /\ irq_pending = FALSE /\ irq_handler = "none"
    /\ mstate = <<0, 0>>
    /\ mop = "none" /\ mpc = "idle" /\ mres = "none" /\ ndetach = 0

NoResult == [kind |-> "none", out |-> <<>>, taken |-> <<>>]
Pending  == [kind |-> "Pending", out |-> <<>>, taken |-> <<>>]
Ready(out, taken) == [kind |-> "Ready", out |-> out, taken |-> taken]
Returned == [kind |-> "Returned", out |-> <<>>, taken |-> <<>>]
Panic(why) == [kind |-> why, out |-> <<>>, taken |-> <<>>]

(***************************************************************************)
(* embassy::util::Signal                                                   *)
(***************************************************************************)
Signal_new == <<>>
Signal_reset(s) == <<>>
Signal_signal(s, v) == <<v>>
Signal_signaled(s) == Len(s) > 0
\* poll_wait: Ready(value), taking it out of the slot, or Pending.
Signal_poll_ready(s) == Len(s) > 0
Signal_poll_value(s) == s[1]
Signal_poll_after(s) == <<>>

(***************************************************************************)
(* The UARTE peripheral.                                                   *)
(***************************************************************************)
DmaStates == {"idle", "starting", "running", "ended", "stopping", "stopped"}

\* The EasyDMA channel is reading / writing the buffer its pointer designates.
DmaActive(d) == d \in {"starting", "running", "stopping"}

\* TASKS_STARTTX / TASKS_STARTRX written: a powered-off peripheral ignores it.
TaskStart(d) == IF enable THEN "starting" ELSE d

\* TASKS_STOPTX / TASKS_STOPRX written.
TaskStop(d) ==
    IF ~enable THEN d
    ELSE IF DmaActive(d) THEN "stopping"
    ELSE "stopped"

\* ENABLE written disabled: both engines are switched off where they stand.
PowerOff(d) == "idle"


TypeOK ==
    /\ enable \in BOOLEAN
    /\ events_endtx \in BOOLEAN /\ events_txstarted \in BOOLEAN
    /\ events_txstopped \in BOOLEAN
    /\ events_endrx \in BOOLEAN /\ events_rxstarted \in BOOLEAN
    /\ events_rxto \in BOOLEAN
    /\ txbuf \in {"none", "cur", "leaked", "released"}
    /\ rxbuf \in {"none", "cur", "leaked", "released"}
    /\ txd_maxcnt \in 0..EASY_DMA_SIZE /\ rxd_maxcnt \in 0..EASY_DMA_SIZE
    /\ rxd_amount \in 0..EASY_DMA_SIZE /\ rxcnt \in 0..EASY_DMA_SIZE
    /\ txdma \in DmaStates /\ rxdma \in DmaStates
    /\ tx_done \in {<<>>, <<Unit>>}
    /\ rx_done \in {<<>>} \cup {<<n>> : n \in 0..EASY_DMA_SIZE}
    /\ fut \in {"none", "send", "send_done", "recv", "recv_done", "stop"}
    /\ buflen \in 0..MaxLen
    /\ nstart \in 0..MaxStarts
    /\ everPolled \in BOOLEAN
    /\ inst \in Instances
    /\ irqseen.ran \in BOOLEAN /\ irqseen.amount \in 0..EASY_DMA_SIZE

\* Uarte::new on the hardware instance T.
Uarte_new(T) ==
    \* Uarte::new asserts the peripheral disabled and resets ENDTX / ENDRX;
    \* the other events are at their reset value.
    /\ enable = FALSE
    /\ events_endtx = FALSE /\ events_txstarted = FALSE
    /\ events_txstopped = FALSE
    /\ events_endrx = FALSE /\ events_rxstarted = FALSE
    /\ events_rxto = FALSE
    /\ txbuf = "none" /\ txd_maxcnt = 0
    /\ rxbuf = "none" /\ rxd_maxcnt = 0 /\ rxd_amount = 0
    /\ txdma = "idle" /\ rxdma = "idle" /\ rxcnt = 0
    /\ tx_done = Signal_new /\ rx_done = Signal_new
    /\ fut = "none" /\ buflen = 0 /\ nstart = 0
    /\ op = "none" /\ pc = "idle" /\ wlog = <<>> /\ result = NoResult
    /\ everPolled = FALSE
    /\ inst = T /\ irqseen = NoIrq

\* The driver is built on the first instance; no PeripheralMutex exists.
Init == Uarte_new("UARTE0") /\ NoMutex

(***************************************************************************)
(* Hardware steps.  Nothing moves while the peripheral is powered off.     *)
(***************************************************************************)
\* The transmitter has started: EVENTS_TXSTARTED.
HwTxStarted ==
    /\ enable /\ txdma = "starting"
    /\ txdma' = "running"
    /\ events_txstarted' = TRUE
    /\ UNCHANGED <<enable, events_endtx, events_txstopped, events_endrx,
                   events_rxstarted, events_rxto, txd_maxcnt, rxd_maxcnt,
                   rxd_amount, rxdma, rxcnt, txbuf, rxbuf, sigs, fg>>
    /\ OutsideIrq

\* The last byte of the TX buffer has been sent: EVENTS_ENDTX.
HwTxEnd ==
    /\ enable /\ txdma = "running"
    /\ txdma' = "ended"
    /\ events_endtx' = TRUE
    /\ txbuf' = "none"
    /\ UNCHANGED <<enable, events_txstarted, events_txstopped, events_endrx,
                   events_rxstarted, events_rxto, txd_maxcnt, rxd_maxcnt,
                   rxd_amount, rxdma, rxcnt, rxbuf, sigs, fg>>
    /\ OutsideIrq

\* A stopped transmitter that had not yet reported ENDTX reports it.
HwTxStopEnd ==
    /\ enable /\ txdma = "stopping"
    /\ txdma' = "stopped"
    /\ events_endtx' = TRUE
    /\ txbuf' = "none"
    /\ UNCHANGED <<enable, events_txstarted, events_txstopped, events_endrx,
                   events_rxstarted, events_rxto, txd_maxcnt, rxd_maxcnt,
                   rxd_amount, rxdma, rxcnt, rxbuf, sigs, fg>>
    /\ OutsideIrq

\* The transmitter has come to a stop: EVENTS_TXSTOPPED.
HwTxStopped ==
    /\ enable /\ txdma = "stopped"
    /\ txdma' = "idle"
    /\ events_txstopped' = TRUE
    /\ UNCHANGED <<enable, events_endtx, events_txstarted, events_endrx,
                   events_rxstarted, events_rxto, txd_maxcnt, rxd_maxcnt,
                   rxd_amount, rxdma, rxcnt, txbuf, rxbuf, sigs, fg>>
    /\ OutsideIrq

\* The receiver has started: EVENTS_RXSTARTED.
HwRxStarted ==
    /\ enable /\ rxdma = "starting"
    /\ rxdma' = "running"
    /\ rxcnt' = 0
    /\ events_rxstarted' = TRUE
    /\ UNCHANGED <<enable, events_endtx, events_txstarted, events_txstopped,
                   events_endrx, events_rxto, txd_maxcnt, rxd_maxcnt,
                   rxd_amount, txdma, txbuf, rxbuf, sigs, fg>>
    /\ OutsideIrq

\* One byte arrives on the line and is written to the RX buffer.
HwRxByte ==
    /\ enable /\ rxdma = "running" /\ rxcnt < rxd_maxcnt
    /\ rxcnt' = rxcnt + 1
    /\ UNCHANGED <<hwRegs, txdma, rxdma, txbuf, rxbuf, sigs, fg>>
    /\ OutsideIrq

\* The RX buffer is full: EVENTS_ENDRX, RXD.AMOUNT = bytes transferred.
HwRxEnd ==
    /\ enable /\ rxdma = "running" /\ rxcnt = rxd_maxcnt
    /\ rxdma' = "ended"
    /\ events_endrx' = TRUE
    /\ rxd_amount' = rxcnt
    /\ rxcnt' = 0
    /\ rxbuf' = "none"
    /\ UNCHANGED <<enable, events_endtx, events_txstarted, events_txstopped,
                   events_rxstarted, events_rxto, txd_maxcnt, rxd_maxcnt,
                   txdma, txbuf, sigs, fg>>
    /\ OutsideIrq

\* A stopped receiver reports the impending ENDRX with the bytes it got.
HwRxStopEnd ==
    /\ enable /\ rxdma = "stopping"
    /\ rxdma' = "stopped"
    /\ events_endrx' = TRUE
    /\ rxd_amount' = rxcnt
    /\ rxcnt' = 0
    /\ rxbuf' = "none"
    /\ UNCHANGED <<enable, events_endtx, events_txstarted, events_txstopped,
                   events_rxstarted, events_rxto, txd_maxcnt, rxd_maxcnt,
                   txdma, txbuf, sigs, fg>>
    /\ OutsideIrq

\* The receiver has come to a stop: EVENTS_RXTO.
HwRxTo ==
    /\ enable /\ rxdma = "stopped"
    /\ rxdma' = "idle"
    /\ events_rxto' = TRUE
    /\ UNCHANGED <<enable, events_endtx, events_txstarted, events_txstopped,
                   events_endrx, events_rxstarted, txd_maxcnt, rxd_maxcnt,
                   rxd_amount, txdma, rxcnt, txbuf, rxbuf, sigs, fg>>
    /\ OutsideIrq

Hardware ==
    \/ HwTxStarted \/ HwTxEnd \/ HwTxStopEnd \/ HwTxStopped
    \/ HwRxStarted \/ HwRxByte \/ HwRxEnd \/ HwRxStopEnd \/ HwRxTo

(***************************************************************************)
(* Uarte::on_irq.  INTENSET arms ENDTX, TXSTOPPED, ENDRX and RXTO.         *)
(***************************************************************************)
IrqPending ==
    events_endtx \/ events_txstopped \/ events_endrx \/ events_rxto

\* The started flags as they are once every asserted event was processed.
TxStartedAfterIrq == events_txstarted /\ ~events_endtx
RxStartedAfterIrq == events_rxstarted /\ ~events_endrx

\* try_disable set by the two completion branches alone.
TryDisable_completion_only ==
    \/ (events_endtx /\ events_txstarted)
    \/ (events_endrx /\ events_rxstarted)

\* try_disable at the end of the invocation.
TryDisable ==
    \/ (events_endtx /\ events_txstarted)
    \/ events_txstopped
    \/ (events_endrx /\ events_rxstarted)
    \/ events_rxto

\* The decision taken on the started flags as the invocation found them.
IrqDisables_flags_on_entry ==
    TryDisable /\ ~events_txstarted /\ ~events_rxstarted

\* The final `if` of on_irq.
IrqDisables == TryDisable /\ ~TxStartedAfterIrq /\ ~RxStartedAfterIrq

\* tx_done signalled only inside the `if` on TXSTARTED.
TxDoneAfterIrq_if_started ==
    IF events_endtx /\ events_txstarted
    THEN Signal_signal(tx_done, Unit) ELSE tx_done

\* T::state().tx_done.signal(()) at the end of the ENDTX branch.
TxDoneAfterIrq ==
    IF events_endtx THEN Signal_signal(tx_done, Unit) ELSE tx_done

\* T::state().rx_done.signal(len) at the end of the ENDRX branch, len being
\* RXD.AMOUNT as read at the top of the branch.
RxDoneAfterIrq ==
    IF events_endrx THEN Signal_signal(rx_done, rxd_amount) ELSE rx_done

\* What the invocation finds in the register block it dereferences.
IrqView ==
    [ran |-> TRUE, endtx |-> events_endtx, txstopped |-> events_txstopped,
     endrx |-> events_endrx, rxto |-> events_rxto,
     txstarted |-> events_txstarted, rxstarted |-> events_rxstarted,
     amount |-> rxd_amount, off |-> IrqDisables]

\* The body of on_irq run on the register block of the driver's instance.
on_irq_regs ==
    /\ events_endtx' = FALSE
    /\ events_txstopped' = FALSE
    /\ events_endrx' = FALSE
    /\ events_rxto' = FALSE
    /\ events_txstarted' = TxStartedAfterIrq
    /\ events_rxstarted' = RxStartedAfterIrq
    /\ tx_done' = TxDoneAfterIrq
    /\ rx_done' = RxDoneAfterIrq
    /\ enable' = IF IrqDisables THEN FALSE ELSE enable
    /\ txdma' = IF IrqDisables THEN PowerOff(txdma) ELSE txdma
    /\ rxdma' = IF IrqDisables THEN PowerOff(rxdma) ELSE rxdma
    /\ rxcnt' = IF IrqDisables THEN 0 ELSE rxcnt
    /\ txbuf' = IF IrqDisables THEN "none" ELSE txbuf
    /\ rxbuf' = IF IrqDisables THEN "none" ELSE rxbuf
    /\ irqseen' = IrqView
    /\ UNCHANGED <<txd_maxcnt, rxd_maxcnt, rxd_amount>>

\* The body of on_irq run on the register block of UARTE0 while the driver
\* is built on another instance: UARTE0 is not in use, none of its events is
\* set, no branch is taken and try_disable stays false.
on_irq_other ==
    /\ irqseen' = [NoIrq EXCEPT !.ran = TRUE]
    /\ UNCHANGED <<hwRegs, hwInt, sigs>>

\* The handler the driver installs on the interrupt line of its instance T:
\* `let uarte = &*pac::UARTE0::ptr()`, whatever T is; the channels are those
\* of T::state().
on_irq ==
    /\ IrqPending
    /\ IF inst = "UARTE0" THEN on_irq_regs ELSE on_irq_other
    /\ UNCHANGED <<fg, inst, mutex>>

(***************************************************************************)
(* Foreground.  A function that is entered when the foreground is idle     *)
(* runs one register access (or one Signal call) per step.                 *)
(***************************************************************************)
Idle == op = "none" /\ pc = "idle"

Log(w) == wlog' = Append(wlog, w)

Bump(n) == IF n < MaxStarts THEN n + 1 ELSE MaxStarts

\* The object's lifetime ends by drop: its buffer may be reused or freed.
Release(ptr) == IF ptr = "cur" THEN "released" ELSE ptr

\* The object is forgotten (mem::forget): its buffer stays borrowed for ever.
Leak(ptr) == IF ptr = "cur" THEN "leaked" ELSE ptr

\* send without the assertion on tx_started().
Uarte_send_unchecked(L) ==
    /\ Idle /\ fut = "none"
    /\ tx_done' = Signal_reset(tx_done)
    /\ fut' = "send" /\ buflen' = L /\ nstart' = 0
    /\ UNCHANGED <<op, pc, result>>
    /\ UNCHANGED <<hwRegs, hwInt, rx_done, wlog, everPolled>>
    /\ OutsideIrq

\* ---- Uarte::send / Uarte::receive ---------------------------------------
Uarte_send(L) ==
    /\ Idle /\ fut = "none"
    /\ IF events_txstarted
       THEN /\ op' = "send" /\ pc' = "aborted" /\ result' = Panic("busy")
            /\ UNCHANGED <<tx_done, fut, buflen, nstart>>
       ELSE /\ tx_done' = Signal_reset(tx_done)
            /\ fut' = "send" /\ buflen' = L /\ nstart' = 0
            /\ UNCHANGED <<op, pc, result>>
    /\ UNCHANGED <<hwRegs, hwInt, rx_done, wlog, everPolled>>
    /\ OutsideIrq

Uarte_receive(L) ==
    /\ Idle /\ fut = "none"
    /\ IF events_rxstarted
       THEN /\ op' = "receive" /\ pc' = "aborted" /\ result' = Panic("busy")
            /\ UNCHANGED <<rx_done, fut, buflen, nstart>>
       ELSE /\ rx_done' = Signal_reset(rx_done)
            /\ fut' = "recv" /\ buflen' = L /\ nstart' = 0
            /\ UNCHANGED <<op, pc, result>>
    /\ UNCHANGED <<hwRegs, hwInt, tx_done, wlog, everPolled>>
    /\ OutsideIrq

\* poll_wait without the assertion on the buffer length.
SendFuture_poll_wait_unchecked ==
    /\ Idle /\ fut = "send"
    /\ op' = "send_poll" /\ everPolled' = TRUE
    /\ IF Signal_poll_ready(tx_done)
       THEN /\ tx_done' = Signal_poll_after(tx_done)
            /\ fut' = "send_done"
            /\ pc' = "ret"
            /\ result' = Ready(Unit, tx_done)
       ELSE /\ UNCHANGED <<tx_done, fut, result>>
            /\ pc' = "enable"
    /\ UNCHANGED <<hwRegs, hwInt, rx_done, buflen, nstart, wlog>>
    /\ OutsideIrq

\* ---- SendFuture::poll ----------------------------------------------------
\* tx_done.poll_wait(cx), and on Pending the length assertion.
SendFuture_poll_wait ==
    /\ Idle /\ fut = "send"
    /\ op' = "send_poll" /\ everPolled' = TRUE
    /\ IF Signal_poll_ready(tx_done)
       THEN /\ tx_done' = Signal_poll_after(tx_done)
            /\ fut' = "send_done"
            /\ pc' = "ret"
            /\ result' = Ready(Unit, tx_done)
       ELSE /\ UNCHANGED <<tx_done, fut>>
            /\ IF buflen <= EASY_DMA_SIZE
               THEN pc' = "enable" /\ UNCHANGED result
               ELSE pc' = "aborted" /\ result' = Panic("len")
    /\ UNCHANGED <<hwRegs, hwInt, rx_done, buflen, nstart, wlog>>
    /\ OutsideIrq

SendFuture_poll_enable ==
    /\ op = "send_poll" /\ pc = "enable"
    /\ enable' = TRUE
    /\ Log("enable") /\ pc' = "dma"
    /\ UNCHANGED <<events_endtx, events_txstarted, events_txstopped,
                   events_endrx, events_rxstarted, events_rxto, txd_maxcnt,
                   rxd_maxcnt, rxd_amount, hwInt, sigs, fut, buflen, nstart,
                   op, result, everPolled>>
    /\ OutsideIrq

SendFuture_poll_dma ==
    /\ op = "send_poll" /\ pc = "dma"
    /\ txd_maxcnt' = buflen
    /\ wlog' = wlog \o <<"ptr", "maxcnt">> /\ pc' = "start"
    /\ UNCHANGED <<enable, events_endtx, events_txstarted, events_txstopped,
                   events_endrx, events_rxstarted, events_rxto, rxd_maxcnt,
                   rxd_amount, hwInt, sigs, fut, buflen, nstart, op, result,
                   everPolled>>
    /\ OutsideIrq

SendFuture_poll_start ==
    /\ op = "send_poll" /\ pc = "start"
    /\ txdma' = TaskStart(txdma)
    /\ txbuf' = IF enable THEN "cur" ELSE txbuf
    /\ nstart' = Bump(nstart)
    /\ Log("start") /\ pc' = "spin"
    /\ UNCHANGED <<hwRegs, rxdma, rxcnt, rxbuf, sigs, fut, buflen, op,
                   result, everPolled>>
    /\ OutsideIrq

\* while !uarte.tx_started() {}
SendFuture_poll_spin ==
    /\ op = "send_poll" /\ pc = "spin"
    /\ events_txstarted
    /\ pc' = "ret" /\ result' = Pending
    /\ UNCHANGED <<hwRegs, hwInt, sigs, fut, buflen, nstart, op, wlog,
                   everPolled>>
    /\ OutsideIrq

SendFuture_poll ==
    \/ SendFuture_poll_wait \/ SendFuture_poll_enable \/ SendFuture_poll_dma
    \/ SendFuture_poll_start \/ SendFuture_poll_spin

\* poll_wait that reads the channel without taking the value out.
ReceiveFuture_poll_wait_peek ==
    /\ Idle /\ fut = "recv"
    /\ op' = "recv_poll" /\ everPolled' = TRUE
    /\ IF Signal_poll_ready(rx_done)
       THEN /\ fut' = "recv_done"
            /\ pc' = "ret"
            /\ result' = Ready(Unit, rx_done)
       ELSE /\ UNCHANGED <<fut, result>>
            /\ pc' = "chk"
    /\ UNCHANGED <<hwRegs, hwInt, sigs, buflen, nstart, wlog>>
    /\ OutsideIrq

\* ---- ReceiveFuture::poll -------------------------------------------------
ReceiveFuture_poll_wait ==
    /\ Idle /\ fut = "recv"
    /\ op' = "recv_poll" /\ everPolled' = TRUE
    /\ IF Signal_poll_ready(rx_done)
       THEN /\ rx_done' = Signal_poll_after(rx_done)
            /\ fut' = "recv_done"
            /\ pc' = "ret"
            /\ result' = Ready(Unit, rx_done)
       ELSE /\ UNCHANGED <<rx_done, fut, result>>
            /\ pc' = "chk"
    /\ UNCHANGED <<hwRegs, hwInt, tx_done, buflen, nstart, wlog>>
    /\ OutsideIrq

\* The match guard `if !uarte.rx_started()`, and the length assertion.
ReceiveFuture_poll_chk ==
    /\ op = "recv_poll" /\ pc = "chk"
    /\ IF events_rxstarted
       THEN pc' = "ret" /\ result' = Pending
       ELSE IF buflen <= EASY_DMA_SIZE
            THEN pc' = "enable" /\ UNCHANGED result
            ELSE pc' = "aborted" /\ result' = Panic("len")
    /\ UNCHANGED <<hwRegs, hwInt, sigs, fut, buflen, nstart, op, wlog,
                   everPolled>>
    /\ OutsideIrq

\* The poll goes on to program the DMA without uarte.enable().
ReceiveFuture_poll_enable_skipped ==
    /\ op = "recv_poll" /\ pc = "enable"
    /\ pc' = "dma"
    /\ UNCHANGED <<hwRegs, hwInt, sigs, fut, buflen, nstart, op, wlog, result,
                   everPolled>>
    /\ OutsideIrq

ReceiveFuture_poll_enable ==
    /\ op = "recv_poll" /\ pc = "enable"
    /\ enable' = TRUE
    /\ Log("enable") /\ pc' = "dma"
    /\ UNCHANGED <<events_endtx, events_txstarted, events_txstopped,
                   events_endrx, events_rxstarted, events_rxto, txd_maxcnt,
                   rxd_maxcnt, rxd_amount, hwInt, sigs, fut, buflen, nstart,
                   op, result, everPolled>>
    /\ OutsideIrq

ReceiveFuture_poll_dma ==
    /\ op = "recv_poll" /\ pc = "dma"
    /\ rxd_maxcnt' = buflen
    /\ wlog' = wlog \o <<"ptr", "maxcnt">> /\ pc' = "start"
    /\ UNCHANGED <<enable, events_endtx, events_txstarted, events_txstopped,
                   events_endrx, events_rxstarted, events_rxto, txd_maxcnt,
                   rxd_amount, hwInt, sigs, fut, buflen, nstart, op, result,
                   everPolled>>
    /\ OutsideIrq

ReceiveFuture_poll_start ==
    /\ op = "recv_poll" /\ pc = "start"
    /\ rxdma' = TaskStart(rxdma)
    /\ rxbuf' = IF enable THEN "cur" ELSE rxbuf
    /\ nstart' = Bump(nstart)
    /\ Log("start") /\ pc' = "spin"
    /\ UNCHANGED <<hwRegs, txdma, rxcnt, txbuf, sigs, fut, buflen, op,
                   result, everPolled>>
    /\ OutsideIrq

\* while !uarte.rx_started() {}
ReceiveFuture_poll_spin ==
    /\ op = "recv_poll" /\ pc = "spin"
    /\ events_rxstarted
    /\ pc' = "ret" /\ result' = Pending
    /\ UNCHANGED <<hwRegs, hwInt, sigs, fut, buflen, nstart, op, wlog,
                   everPolled>>
    /\ OutsideIrq

ReceiveFuture_poll ==
    \/ ReceiveFuture_poll_wait \/ ReceiveFuture_poll_chk
    \/ ReceiveFuture_poll_enable \/ ReceiveFuture_poll_dma
    \/ ReceiveFuture_poll_start \/ ReceiveFuture_poll_spin


\* ---- impl Drop for SendFuture --------------------------------------------
\* The object is dropped: by the caller, by the executor, or after Ready.
SendFuture_drop_enter ==
    /\ Idle /\ fut \in {"send", "send_done"}
    /\ op' = "send_drop" /\ pc' = "d_chk"
    /\ UNCHANGED <<hwRegs, hwInt, sigs, fut, buflen, nstart, wlog, result,
                   everPolled>>
    /\ OutsideIrq

\* drop returns: the borrow of the driver and of the buffer ends.
SendFuture_drop_return ==
    /\ pc' = "ret" /\ result' = Returned
    /\ fut' = "none"
    /\ txbuf' = Release(txbuf)

\* if self.uarte.tx_started()
SendFuture_drop_chk ==
    /\ op = "send_drop" /\ pc = "d_chk"
    /\ IF events_txstarted
       THEN /\ pc' = "d_clear"
            /\ UNCHANGED <<result, fut, txbuf>>
       ELSE SendFuture_drop_return
    /\ UNCHANGED <<hwRegs, txdma, rxdma, rxcnt, rxbuf, sigs, buflen, nstart,
                   op, wlog, everPolled>>
    /\ OutsideIrq

SendFuture_drop_clear ==
    /\ op = "send_drop" /\ pc = "d_clear"
    /\ events_txstarted' = FALSE
    /\ Log("clear_started") /\ pc' = "d_stop"
    /\ UNCHANGED <<enable, events_endtx, events_txstopped, events_endrx,
                   events_rxstarted, events_rxto, txd_maxcnt, rxd_maxcnt,
                   rxd_amount, hwInt, sigs, fut, buflen, nstart, op, result,
                   everPolled>>
    /\ OutsideIrq

SendFuture_drop_stop ==
    /\ op = "send_drop" /\ pc = "d_stop"
    /\ txdma' = TaskStop(txdma)
    /\ Log("stop") /\ pc' = "d_wait"
    /\ UNCHANGED <<hwRegs, rxdma, rxcnt, txbuf, rxbuf, sigs, fut, buflen,
                   nstart, op, result, everPolled>>
    /\ OutsideIrq

\* while !T::state().tx_done.signaled() {}
SendFuture_drop_wait ==
    /\ op = "send_drop" /\ pc = "d_wait"
    /\ Signal_signaled(tx_done)
    /\ SendFuture_drop_return
    /\ UNCHANGED <<hwRegs, txdma, rxdma, rxcnt, rxbuf, sigs, buflen, nstart,
                   op, wlog, everPolled>>
    /\ OutsideIrq

SendFuture_drop ==
    \/ SendFuture_drop_enter \/ SendFuture_drop_chk \/ SendFuture_drop_clear
    \/ SendFuture_drop_stop \/ SendFuture_drop_wait

\* ---- impl Drop for ReceiveFuture -----------------------------------------
\* The object is dropped, or the suspended stop() future that owns it is.
ReceiveFuture_drop_enter ==
    /\ Idle /\ fut \in {"recv", "recv_done", "stop"}
    /\ op' = "recv_drop" /\ pc' = "d_chk"
    /\ UNCHANGED <<hwRegs, hwInt, sigs, fut, buflen, nstart, wlog, result,
                   everPolled>>
    /\ OutsideIrq

\* drop returns; at the end of stop() the value of stop() is returned.
ReceiveFuture_drop_return ==
    /\ pc' = "ret"
    /\ result' = IF op = "stop_poll" THEN result ELSE Returned
    /\ fut' = "none"
    /\ rxbuf' = Release(rxbuf)

\* if self.uarte.rx_started()
ReceiveFuture_drop_chk ==
    /\ op \in {"recv_drop", "stop_poll"} /\ pc = "d_chk"
    /\ IF events_rxstarted
       THEN /\ pc' = "d_clear"
            /\ UNCHANGED <<result, fut, rxbuf>>
       ELSE ReceiveFuture_drop_return
    /\ UNCHANGED <<hwRegs, txdma, rxdma, rxcnt, txbuf, sigs, buflen, nstart,
                   op, wlog, everPolled>>
    /\ OutsideIrq

ReceiveFuture_drop_clear ==
    /\ op \in {"recv_drop", "stop_poll"} /\ pc = "d_clear"
    /\ events_rxstarted' = FALSE
    /\ Log("clear_started") /\ pc' = "d_stop"
    /\ UNCHANGED <<enable, events_endtx, events_txstarted, events_txstopped,
                   events_endrx, events_rxto, txd_maxcnt, rxd_maxcnt,
                   rxd_amount, hwInt, sigs, fut, buflen, nstart, op, result,
                   everPolled>>
    /\ OutsideIrq

ReceiveFuture_drop_stop ==
    /\ op \in {"recv_drop", "stop_poll"} /\ pc = "d_stop"
    /\ rxdma' = TaskStop(rxdma)
    /\ Log("stop") /\ pc' = "d_wait"
    /\ UNCHANGED <<hwRegs, txdma, rxcnt, txbuf, rxbuf, sigs, fut, buflen,
                   nstart, op, result, everPolled>>
    /\ OutsideIrq

\* drop that returns without waiting for rx_done.
ReceiveFuture_drop_wait_nowait ==
    /\ op \in {"recv_drop", "stop_poll"} /\ pc = "d_wait"
    /\ ReceiveFuture_drop_return
    /\ UNCHANGED <<hwRegs, txdma, rxdma, rxcnt, txbuf, sigs, buflen, nstart,
                   op, wlog, everPolled>>
    /\ OutsideIrq

\* util::low_power_wait_until(|| T::state().rx_done.signaled())
ReceiveFuture_drop_wait ==
    /\ op \in {"recv_drop", "stop_poll"} /\ pc = "d_wait"
    /\ Signal_signaled(rx_done)
    /\ ReceiveFuture_drop_return
    /\ UNCHANGED <<hwRegs, txdma, rxdma, rxcnt, txbuf, sigs, buflen, nstart,
                   op, wlog, everPolled>>
    /\ OutsideIrq

ReceiveFuture_drop ==
    \/ ReceiveFuture_drop_enter \/ ReceiveFuture_drop_chk
    \/ ReceiveFuture_drop_clear \/ ReceiveFuture_drop_stop
    \/ ReceiveFuture_drop_wait

\* ---- ReceiveFuture::stop (async fn) --------------------------------------
\* First poll of the future stop(self) returns: `if self.uarte.rx_started()`.
ReceiveFuture_stop_chk ==
    /\ Idle /\ fut \in {"recv", "recv_done"}
    /\ op' = "stop_poll" /\ everPolled' = TRUE
    /\ IF events_rxstarted
       THEN pc' = "s_clear" /\ UNCHANGED result
       ELSE \* len = 0, then `self` is dropped at the end of the body
            pc' = "d_chk" /\ result' = Ready(<<0>>, <<>>)
    /\ UNCHANGED <<hwRegs, hwInt, sigs, fut, buflen, nstart, wlog>>
    /\ OutsideIrq

ReceiveFuture_stop_clear ==
    /\ op = "stop_poll" /\ pc = "s_clear"
    /\ events_rxstarted' = FALSE
    /\ Log("clear_started") /\ pc' = "s_stop"
    /\ UNCHANGED <<enable, events_endtx, events_txstarted, events_txstopped,
                   events_endrx, events_rxto, txd_maxcnt, rxd_maxcnt,
                   rxd_amount, hwInt, sigs, fut, buflen, nstart, op, result,
                   everPolled>>
    /\ OutsideIrq

ReceiveFuture_stop_stop ==
    /\ op = "stop_poll" /\ pc = "s_stop"
    /\ rxdma' = TaskStop(rxdma)
    /\ Log("stop") /\ pc' = "s_await"
    /\ UNCHANGED <<hwRegs, txdma, rxcnt, txbuf, rxbuf, sigs, fut, buflen,
                   nstart, op, result, everPolled>>
    /\ OutsideIrq

\* T::state().rx_done.wait().await : Ready(len) or suspend.
ReceiveFuture_stop_await ==
    /\ op = "stop_poll" /\ pc = "s_await"
    /\ IF Signal_poll_ready(rx_done)
       THEN /\ rx_done' = Signal_poll_after(rx_done)
            /\ result' = Ready(<<Signal_poll_value(rx_done)>>, rx_done)
            /\ pc' = "d_chk"
            /\ UNCHANGED fut
       ELSE /\ UNCHANGED rx_done
            /\ result' = Pending
            /\ pc' = "ret"
            /\ fut' = "stop"
    /\ UNCHANGED <<hwRegs, hwInt, tx_done, buflen, nstart, op, wlog,
                   everPolled>>
    /\ OutsideIrq

\* A later poll of the suspended stop() future resumes at the await.
ReceiveFuture_stop_resume ==
    /\ Idle /\ fut = "stop"
    /\ op' = "stop_poll" /\ pc' = "s_await"
    /\ UNCHANGED <<hwRegs, hwInt, sigs, fut, buflen, nstart, wlog, result,
                   everPolled>>
    /\ OutsideIrq

ReceiveFuture_stop ==
    \/ ReceiveFuture_stop_chk \/ ReceiveFuture_stop_clear
    \/ ReceiveFuture_stop_stop \/ ReceiveFuture_stop_await
    \/ ReceiveFuture_stop_resume

\* ---- mem::forget of an operation object ----------------------------------
Forget ==
    /\ Idle /\ fut \in {"send", "recv"}
    /\ fut' = "none" /\ buflen' = 0 /\ nstart' = 0
    /\ txbuf' = Leak(txbuf)
    /\ rxbuf' = Leak(rxbuf)
    /\ UNCHANGED <<hwRegs, txdma, rxdma, rxcnt, sigs, op, pc, wlog, result,
                   everPolled>>
    /\ OutsideIrq

\* ---- Uarte::free ---------------------------------------------------------
Uarte_free_enter ==
    /\ Idle /\ fut = "none"
    /\ op' = "free" /\ pc' = "free_wait"
    /\ UNCHANGED <<hwRegs, hwInt, sigs, fut, buflen, nstart, wlog, result,
                   everPolled>>
    /\ OutsideIrq

\* while self.instance.enable.read().enable().is_enabled() {}
Uarte_free_wait ==
    /\ op = "free" /\ pc = "free_wait"
    /\ ~enable
    /\ pc' = "freed" /\ result' = Returned
    /\ UNCHANGED <<hwRegs, hwInt, sigs, fut, buflen, nstart, op, wlog,
                   everPolled>>
    /\ OutsideIrq

Uarte_free == Uarte_free_enter \/ Uarte_free_wait

\* ---- a poll / drop / stop invocation has returned to its caller ----------
Return ==
    /\ pc = "ret"
    /\ op' = "none" /\ pc' = "idle" /\ wlog' = <<>> /\ result' = NoResult
    /\ buflen' = IF fut = "none" THEN 0 ELSE buflen
    /\ nstart' = IF fut = "none" THEN 0 ELSE nstart
    /\ UNCHANGED <<hwRegs, hwInt, sigs, fut, everPolled>>
    /\ OutsideIrq

Foreground ==
    \/ \E L \in 0..MaxLen : Uarte_send(L)
    \/ \E L \in 0..MaxLen : Uarte_receive(L)
    \/ SendFuture_poll
    \/ ReceiveFuture_poll
    \/ SendFuture_drop
    \/ ReceiveFuture_drop
    \/ ReceiveFuture_stop
    \/ Forget
    \/ Uarte_free
    \/ Return

Next == Foreground \/ on_irq \/ Hardware

Spec == Init /\ [][Next]_vars


(***************************************************************************)
(* PeripheralMutex<S> (src/embassy-rp/src/util/peripheral.rs): the state S *)
(* shared between the foreground and the handler of one interrupt line.    *)
(* The foreground runs with / try_free / free / drop one call on the       *)
(* interrupt line per step; the line may become pending at any moment and  *)
(* its handler preempts the foreground whenever the line is enabled,       *)
(* pending and has a handler.  mstate = <<writes made by with's closure,   *)
(* invocations of on_interrupt>>, both saturating at MaxCount.             *)
(***************************************************************************)
\* Saturation value of the two counters kept in the state S.
MaxCount == 2

Sat(n) == IF n < MaxCount THEN n + 1 ELSE MaxCount

\* PeripheralMutex::new(state, irq): nothing is done to the interrupt line.
PeripheralMutex_new ==
    /\ life = "Created" /\ inner = "Some"
    /\ irq_enabled = FALSE /\ irq_pending = FALSE /\ irq_handler = "none"
    /\ mstate = <<0, 0>>
    /\ mop = "none" /\ mpc = "idle" /\ mres = "none" /\ ndetach = 0

MutexInit == Uarte_new("UARTE0") /\ PeripheralMutex_new

MutexIdle == mop = "none" /\ mpc = "idle"

\* with() that goes on whether or not `inner` still holds the pair.
PeripheralMutex_with_unwrap_unchecked ==
    /\ MutexIdle
    /\ mop' = "with" /\ mpc' = "w_disable"
    /\ UNCHANGED <<life, inner, irq_enabled, irq_pending, irq_handler, mstate,
                   mres, ndetach, uarte>>

\* ---- PeripheralMutex::with -----------------------------------------------
\* let (state, irq) = unwrap!(this.inner.as_mut());
PeripheralMutex_with_unwrap ==
    /\ MutexIdle
    /\ mop' = "with"
    /\ IF inner = "Some"
       THEN mpc' = "w_disable" /\ UNCHANGED mres
       ELSE mpc' = "aborted" /\ mres' = "panic"
    /\ UNCHANGED <<life, inner, irq_enabled, irq_pending, irq_handler, mstate,
                   ndetach, uarte>>

\* with() that leaves the interrupt line as it is.
PeripheralMutex_with_disable_skipped ==
    /\ mop = "with" /\ mpc = "w_disable"
    /\ mpc' = "w_set_handler"
    /\ UNCHANGED <<life, inner, irq_enabled, irq_pending, irq_handler, mstate,
                   mop, mres, ndetach, uarte>>

\* irq.disable();
PeripheralMutex_with_disable ==
    /\ mop = "with" /\ mpc = "w_disable"
    /\ irq_enabled' = FALSE
    /\ mpc' = "w_set_handler"
    /\ UNCHANGED <<life, inner, irq_pending, irq_handler, mstate, mop, mres,
                   ndetach, uarte>>

\* irq.set_handler(|p| ..., state.get() as *mut ());
PeripheralMutex_with_set_handler ==
    /\ mop = "with" /\ mpc = "w_set_handler"
    /\ irq_handler' = "state"
    /\ mpc' = "w_f"
    /\ UNCHANGED <<life, inner, irq_enabled, irq_pending, mstate, mop, mres,
                   ndetach, uarte>>

\* let r = f(state, irq): the closure writes to the state ...
PeripheralMutex_with_f_write ==
    /\ mop = "with" /\ mpc = "w_f"
    /\ mstate[1] < MaxCount
    /\ mstate' = <<mstate[1] + 1, mstate[2]>>
    /\ UNCHANGED <<life, inner, irq_enabled, irq_pending, irq_handler, mop,
                   mpc, mres, ndetach, uarte>>

\* ... and returns r.
PeripheralMutex_with_f_return ==
    /\ mop = "with" /\ mpc = "w_f"
    /\ mpc' = "w_enable" /\ mres' = "R"
    /\ UNCHANGED <<life, inner, irq_enabled, irq_pending, irq_handler, mstate,
                   mop, ndetach, uarte>>

\* irq.enable(); r
PeripheralMutex_with_enable ==
    /\ mop = "with" /\ mpc = "w_enable"
    /\ irq_enabled' = TRUE
    /\ mpc' = "ret"
    /\ UNCHANGED <<life, inner, irq_pending, irq_handler, mstate, mop, mres,
                   ndetach, uarte>>

PeripheralMutex_with ==
    \/ PeripheralMutex_with_unwrap \/ PeripheralMutex_with_disable
    \/ PeripheralMutex_with_set_handler \/ PeripheralMutex_with_f_write
    \/ PeripheralMutex_with_f_return \/ PeripheralMutex_with_enable

\* try_free that reads `inner` and leaves the pair in it.
PeripheralMutex_try_free_take_as_mut(by) ==
    /\ MutexIdle
    /\ mop' = by
    /\ IF inner = "Some"
       THEN mpc' = "f_disable" /\ UNCHANGED mres
       ELSE IF by = "free"
            THEN mpc' = "aborted" /\ mres' = "panic"
            ELSE mpc' = "ret" /\ mres' = "None"
    /\ UNCHANGED <<life, inner, irq_enabled, irq_pending, irq_handler, mstate,
                   ndetach, uarte>>

\* ---- PeripheralMutex::try_free, and free = unwrap!(self.try_free()) ------
\* this.inner.take().map(...): None is returned as it is, and free aborts.
PeripheralMutex_try_free_take(by) ==
    /\ MutexIdle
    /\ mop' = by
    /\ IF inner = "Some"
       THEN inner' = "None" /\ mpc' = "f_disable" /\ UNCHANGED mres
       ELSE /\ UNCHANGED inner
            /\ IF by = "free"
               THEN mpc' = "aborted" /\ mres' = "panic"
               ELSE mpc' = "ret" /\ mres' = "None"
    /\ UNCHANGED <<life, irq_enabled, irq_pending, irq_handler, mstate,
                   ndetach, uarte>>

\* irq.disable();
PeripheralMutex_try_free_disable ==
    /\ mop \in {"try_free", "free"} /\ mpc = "f_disable"
    /\ irq_enabled' = FALSE
    /\ mpc' = "f_remove"
    /\ UNCHANGED <<life, inner, irq_pending, irq_handler, mstate, mop, mres,
                   ndetach, uarte>>

\* irq.remove_handler(); (state.into_inner(), irq)
PeripheralMutex_try_free_remove ==
    /\ mop \in {"try_free", "free"} /\ mpc = "f_remove"
    /\ irq_handler' = "none"
    /\ ndetach' = ndetach + 1
    /\ mpc' = "ret" /\ mres' = "Some"
    /\ UNCHANGED <<life, inner, irq_enabled, irq_pending, mstate, mop,
                   uarte>>

PeripheralMutex_try_free ==
    \/ PeripheralMutex_try_free_take("try_free")
    \/ PeripheralMutex_try_free_disable
    \/ PeripheralMutex_try_free_remove

PeripheralMutex_free == PeripheralMutex_try_free_take("free")

\* ---- impl Drop for PeripheralMutex ---------------------------------------
\* if let Some((state, irq)) = &mut self.inner
PeripheralMutex_drop_chk ==
    /\ MutexIdle
    /\ mop' = "drop"
    /\ mpc' = IF inner = "Some" THEN "d_disable" ELSE "dropped"
    /\ UNCHANGED <<life, inner, irq_enabled, irq_pending, irq_handler, mstate,
                   mres, ndetach, uarte>>

\* irq.disable();
PeripheralMutex_drop_disable ==
    /\ mop = "drop" /\ mpc = "d_disable"
    /\ irq_enabled' = FALSE
    /\ mpc' = "d_remove"
    /\ UNCHANGED <<life, inner, irq_pending, irq_handler, mstate, mop, mres,
                   ndetach, uarte>>

\* drop that disables the line and leaves the handler attached.
PeripheralMutex_drop_remove_skipped ==
    /\ mop = "drop" /\ mpc = "d_remove"
    /\ ndetach' = ndetach + 1
    /\ mpc' = "dropped"
    /\ UNCHANGED <<life, inner, irq_enabled, irq_pending, irq_handler, mstate,
                   mop, mres, uarte>>

\* irq.remove_handler();
PeripheralMutex_drop_remove ==
    /\ mop = "drop" /\ mpc = "d_remove"
    /\ irq_handler' = "none"
    /\ ndetach' = ndetach + 1
    /\ mpc' = "dropped"
    /\ UNCHANGED <<life, inner, irq_enabled, irq_pending, mstate, mop, mres,
                   uarte>>

PeripheralMutex_drop ==
    \/ PeripheralMutex_drop_chk \/ PeripheralMutex_drop_disable
    \/ PeripheralMutex_drop_remove

\* ---- with / try_free / free has returned to its caller -------------------
MutexReturn ==
    /\ mpc = "ret"
    /\ mop' = "none" /\ mpc' = "idle" /\ mres' = "none"
    /\ UNCHANGED <<life, inner, irq_enabled, irq_pending, irq_handler, mstate,
                   ndetach, uarte>>

\* ---- the interrupt line ---------------------------------------------------
\* The peripheral raises the interrupt: the line becomes pending.
Interrupt_pend ==
    /\ ~irq_pending
    /\ irq_pending' = TRUE
    /\ UNCHANGED <<life, inner, irq_enabled, irq_handler, mstate, mop, mpc,
                   mres, ndetach, uarte>>

\* The handler with() installed is entered: state.on_interrupt().  Entered
\* after take() has moved the pair out of `inner`, it writes through a
\* pointer to the moved-from cell: the write reaches the state that
\* try_free returns, or it does not.
PeripheralState_on_interrupt ==
    /\ irq_enabled /\ irq_pending /\ irq_handler = "state"
    /\ irq_pending' = FALSE
    /\ \/ mstate' = <<mstate[1], Sat(mstate[2])>>
       \/ inner = "None" /\ mstate' = mstate
    /\ UNCHANGED <<life, inner, irq_enabled, irq_handler, mop, mpc, mres,
                   ndetach, uarte>>

\* The line is enabled and pending with no handler attached: the default
\* handler is entered.
Interrupt_unhandled ==
    /\ irq_enabled /\ irq_pending /\ irq_handler = "none"
    /\ irq_pending' = FALSE
    /\ UNCHANGED <<life, inner, irq_enabled, irq_handler, mstate, mop, mpc,
                   mres, ndetach, uarte>>

\* The owner of the (state, irq) pair that try_free / free returned enables
\* the line again.
Interrupt_enable_by_owner ==
    /\ MutexIdle /\ inner = "None" /\ ~irq_enabled
    /\ irq_enabled' = TRUE
    /\ UNCHANGED <<life, inner, irq_pending, irq_handler, mstate, mop, mpc,
                   mres, ndetach, uarte>>

MutexNext ==
    \/ PeripheralMutex_with
    \/ PeripheralMutex_try_free
    \/ PeripheralMutex_free
    \/ PeripheralMutex_drop
    \/ MutexReturn
    \/ Interrupt_pend
    \/ PeripheralState_on_interrupt
    \/ Interrupt_unhandled
    \/ Interrupt_enable_by_owner

MutexSpec == MutexInit /\ [][MutexNext]_vars


(***************************************************************************)
(* Properties.                                                             *)
(***************************************************************************)

\* C1: whichever way the lifetime of a send or receive object ends
\* (completion, drop before the first poll, drop after the transfer started,
\* drop of a suspended stop()), no EasyDMA channel is working on the buffer
\* the object borrowed at or after that moment.
C1_NoDmaOnReleasedBuffer ==
    /\ ~(DmaActive(txdma) /\ txbuf = "released")
    /\ ~(DmaActive(rxdma) /\ rxbuf = "released")


DropReturned == op \in {"send_drop", "recv_drop"} /\ pc = "ret"

DropDone == IF op = "send_drop" THEN tx_done ELSE rx_done

\* C2: a drop that finds the started flag set clears it, issues the stop
\* command of its direction and returns only once that direction's completion
\* channel holds a value; a drop that finds the flag clear writes nothing to
\* the hardware and returns at once.
C2_DropContract ==
    /\ [](DropReturned =>
            \/ wlog = <<>>
            \/ wlog = <<"clear_started", "stop">> /\ Signal_signaled(DropDone))
    /\ [][(op = "send_drop" /\ pc = "d_chk" /\ pc' # pc) =>
            IF events_txstarted
            THEN pc' = "d_clear"
            ELSE pc' = "ret" /\ wlog' = <<>> /\ UNCHANGED <<hwRegs, txdma, rxdma>>
         ]_vars
    /\ [][(op = "recv_drop" /\ pc = "d_chk" /\ pc' # pc) =>
            IF events_rxstarted
            THEN pc' = "d_clear"
            ELSE pc' = "ret" /\ wlog' = <<>> /\ UNCHANGED <<hwRegs, txdma, rxdma>>
         ]_vars
    /\ [][(op \in {"send_drop", "recv_drop"} /\ pc = "d_clear" /\ pc' # pc) =>
            IF op = "send_drop" THEN ~events_txstarted' ELSE ~events_rxstarted'
         ]_vars

\* A drop of a started receive has stopped the receiver, waited and returned.
C2_Witness ==
    /\ op = "recv_drop" /\ pc = "ret"
    /\ wlog = <<"clear_started", "stop">>
    /\ Signal_signaled(rx_done)

\* C3: stop() returns the number of bytes received before the stop: the
\* count the hardware reports for the transfer this object started, and 0
\* only if it started none (or the transfer was halted after 0 bytes).
C3_StopReturnsBytesReceived ==
    (op = "stop_poll" /\ pc = "ret" /\ result.kind = "Ready") =>
        result.out = <<IF nstart = 0 THEN 0 ELSE rxd_amount>>

\* C4: the interrupt handler powers the peripheral off only when no transfer
\* of either direction is active.
C4_PowerOffOnlyWhenIdle ==
    [][(enable /\ ~enable') => (~DmaActive(txdma) /\ ~DmaActive(rxdma))]_vars


\* The hardware always finishes what it was told to do, a pending interrupt
\* is always taken, and the spin of free() keeps reading ENABLE.  Bytes on
\* the RX line arrive or not as the remote end pleases.
Fairness ==
    /\ WF_vars(on_irq)
    /\ WF_vars(HwTxStarted) /\ WF_vars(HwTxEnd)
    /\ WF_vars(HwTxStopEnd) /\ WF_vars(HwTxStopped)
    /\ WF_vars(HwRxStarted) /\ WF_vars(HwRxEnd)
    /\ WF_vars(HwRxStopEnd) /\ WF_vars(HwRxTo)
    /\ WF_vars(Uarte_free_wait)

LiveSpec == Spec /\ Fairness

\* The driver is built on any of the instances that can back it.
InstInit == \E T \in Instances : Uarte_new(T) /\ NoMutex

InstLiveSpec == InstInit /\ [][Next]_vars /\ Fairness

\* The spin of SendFuture::drop and the wait of ReceiveFuture::drop keep
\* reading their channel.
CleanupFairness ==
    /\ Fairness
    /\ WF_vars(SendFuture_drop_wait)
    /\ WF_vars(ReceiveFuture_drop_wait)

CleanupLiveSpec == Spec /\ CleanupFairness

\* C5: free() returns only while the peripheral is powered off, and once it
\* is called with no forgotten receive still running it does return.
C5_FreeTerminates ==
    /\ [](pc = "freed" => ~enable)
    /\ (op = "free" /\ rxbuf # "leaked") ~> (pc = "freed")

\* free() is spinning on a peripheral that is still powered on.
C5_Witness ==
    op = "free" /\ pc = "free_wait" /\ enable /\ rxbuf # "leaked"

PollWrites == <<"enable", "ptr", "maxcnt", "start">>

IsPrefix(s, t) == Len(s) <= Len(t) /\ SubSeq(t, 1, Len(s)) = s

InPoll == op \in {"send_poll", "recv_poll"}

\* C6: the peripheral is powered off until the first poll, and the writes a
\* poll makes come in the order ENABLE, PTR, MAXCNT, start task: a start
\* command is preceded, in the same poll, by the power-on.
C6_PowerOnBeforeStart ==
    /\ ~everPolled => ~enable
    /\ InPoll => IsPrefix(wlog, PollWrites)

\* A poll has powered the peripheral on and issued its start command.
C6_Witness == op = "recv_poll" /\ wlog = PollWrites /\ rxdma = "starting"

\* C7: send (receive) called while the started flag of its direction is set
\* aborts and leaves the completion channels and the hardware untouched;
\* called while the flag is clear it resets the channel of its direction,
\* writes nothing to the hardware and returns a NotStarted operation.
C7_ExclusiveStart ==
    /\ [][(pc # "aborted" /\ pc' = "aborted" /\ op' = "send") =>
            (events_txstarted /\ UNCHANGED <<hwRegs, hwInt, sigs, fut>>)]_vars
    /\ [][(pc # "aborted" /\ pc' = "aborted" /\ op' = "receive") =>
            (events_rxstarted /\ UNCHANGED <<hwRegs, hwInt, sigs, fut>>)]_vars
    /\ [][(fut = "none" /\ fut' = "send") =>
            /\ ~events_txstarted /\ ~events_txstarted'
            /\ tx_done' = <<>> /\ nstart' = 0
            /\ UNCHANGED <<hwRegs, hwInt, rx_done>>]_vars
    /\ [][(fut = "none" /\ fut' = "recv") =>
            /\ ~events_rxstarted /\ ~events_rxstarted'
            /\ rx_done' = <<>> /\ nstart' = 0
            /\ UNCHANGED <<hwRegs, hwInt, tx_done>>]_vars

\* send() was called while a forgotten send was still running, and aborted.
C7_Witness == op = "send" /\ pc = "aborted" /\ events_txstarted

\* C8: a poll that programs a transfer writes the buffer's length to MAXCNT
\* of its direction, and only for a length within EASY_DMA_SIZE; for a longer
\* buffer it aborts before any write to the hardware.
C8_LengthBound ==
    /\ (InPoll /\ pc \in {"enable", "dma", "start", "spin"}) =>
            buflen <= EASY_DMA_SIZE
    /\ (op = "send_poll" /\ Len(wlog) >= 3) => txd_maxcnt = buflen
    /\ (op = "recv_poll" /\ Len(wlog) >= 3) => rxd_maxcnt = buflen
    /\ result.kind = "len" =>
            (pc = "aborted" /\ wlog = <<>> /\ buflen > EASY_DMA_SIZE)
    /\ (InPoll /\ pc = "aborted") => result.kind = "len"

\* A send of the longest legal buffer has programmed MAXCNT with its length.
C8_Witness ==
    /\ op = "send_poll" /\ wlog = PollWrites
    /\ buflen = EASY_DMA_SIZE /\ txd_maxcnt = EASY_DMA_SIZE

\* C9: a poll of an operation whose started flag is set and whose channel is
\* empty returns Pending without a write to the hardware, so an operation
\* issues at most one start command.
C9_StartedPollTouchesNothing ==
    /\ [](nstart <= 1)
    /\ [][(Idle /\ fut = "send" /\ op' = "send_poll"
            /\ events_txstarted /\ ~Signal_signaled(tx_done)) =>
            (pc' = "ret" /\ result' = Pending)]_vars
    /\ [][(op = "recv_poll" /\ pc = "chk" /\ pc' # pc /\ events_rxstarted) =>
            (pc' = "ret" /\ result' = Pending /\ wlog' = <<>>)]_vars

\* A poll finds a value in the channel of its direction.
PollFindsValue(f, o, s) == Idle /\ fut = f /\ op' = o /\ Signal_signaled(s)

\* C10 as claimed: the poll takes the value out of the channel and completes,
\* a receive with the byte count the handler signalled, a send with ().
C10_ReadyCarriesCount ==
    /\ [][PollFindsValue("send", "send_poll", tx_done) =>
            /\ tx_done' = <<>> /\ pc' = "ret" /\ fut' = "send_done"
            /\ result'.kind = "Ready" /\ result'.out = Unit]_vars
    /\ [][PollFindsValue("recv", "recv_poll", rx_done) =>
            /\ rx_done' = <<>> /\ pc' = "ret" /\ fut' = "recv_done"
            /\ result'.kind = "Ready" /\ result'.out = rx_done]_vars

\* C10 as the code has it: the poll takes the value out of the channel and
\* completes with Ok(()) for a send and for a receive alike; the byte count
\* taken from the receive channel is discarded.
C10_ReadyConsumes ==
    /\ [][PollFindsValue("send", "send_poll", tx_done) =>
            /\ tx_done' = <<>> /\ pc' = "ret" /\ fut' = "send_done"
            /\ result'.kind = "Ready" /\ result'.out = Unit]_vars
    /\ [][PollFindsValue("recv", "recv_poll", rx_done) =>
            /\ rx_done' = <<>> /\ pc' = "ret" /\ fut' = "recv_done"
            /\ result'.kind = "Ready" /\ result'.out = Unit
            /\ result'.taken = rx_done]_vars

\* A receive poll has completed on a count signalled by the handler.
C10_Witness ==
    /\ op = "recv_poll" /\ pc = "ret" /\ result.kind = "Ready"
    /\ result.taken = <<EASY_DMA_SIZE>> /\ rx_done = <<>>

\* A step that is one invocation of on_irq.
IrqStep == irqseen'.ran

\* An event of this invocation marks the peripheral eligible for power-down.
Eligible ==
    \/ (events_endtx /\ events_txstarted)
    \/ events_txstopped
    \/ (events_endrx /\ events_rxstarted)
    \/ events_rxto

\* C11: one invocation of the handler writes ENABLE = disabled iff an event
\* it processed marked eligibility and neither started flag is set once all
\* its events are processed; in particular for TXSTOPPED together with ENDRX
\* while RXSTARTED is set, and never when no event marked eligibility.
C11_PowerOffDecidedOnce ==
    /\ [][IrqStep =>
            ((enable /\ ~enable') <=>
                (Eligible /\ ~events_txstarted' /\ ~events_rxstarted'))]_vars
    /\ [][(IrqStep /\ events_txstopped /\ events_endrx /\ events_rxstarted) =>
            ((enable /\ ~enable') <=>
                (~events_txstarted' /\ ~events_rxstarted'))]_vars
    /\ [][(IrqStep /\ ~Eligible) => (enable' = enable)]_vars

\* One invocation found TXSTOPPED and ENDRX with RXSTARTED set, and powered
\* the peripheral off.
C11_Witness ==
    /\ irqseen.ran /\ irqseen.txstopped /\ irqseen.endrx /\ irqseen.rxstarted
    /\ irqseen.off /\ ~enable

\* C14: whichever instance backs the driver, an invocation of the handler it
\* installed clears the armed events of that instance, and a transfer that
\* ended on that instance is eventually signalled on its completion channel.
C14_HandlerServesItsInstance ==
    /\ [][IrqStep => (~events_endtx' /\ ~events_txstopped'
                        /\ ~events_endrx' /\ ~events_rxto')]_vars
    /\ events_endtx ~> Signal_signaled(tx_done)
    /\ events_endrx ~> Signal_signaled(rx_done)

\* C15: the wait of a drop that stopped a started transfer ends, and the
\* channel a suspended stop() awaits gets its value, in every interleaving
\* with the handler.
C15_CleanupWaitEnds ==
    /\ (op = "send_drop" /\ pc = "d_wait") ~> (pc = "ret")
    /\ (op \in {"recv_drop", "stop_poll"} /\ pc = "d_wait") ~> (pc = "ret")
    /\ (fut = "stop") ~> (Signal_signaled(rx_done) \/ fut # "stop")

\* C16: one invocation clears every armed event that is set; it signals
\* tx_done iff ENDTX was set, TXSTARTED set or not, and clears TXSTARTED only
\* then; it signals rx_done iff ENDRX was set, with RXD.AMOUNT, and clears
\* RXSTARTED only then; TXSTOPPED and RXTO signal nothing and clear no
\* started flag.
C16_HandlerPerEvent ==
    [][IrqStep =>
        /\ ~events_endtx' /\ ~events_txstopped'
        /\ ~events_endrx' /\ ~events_rxto'
        /\ tx_done' = IF events_endtx THEN <<Unit>> ELSE tx_done
        /\ events_txstarted' = (events_txstarted /\ ~events_endtx)
        /\ rx_done' = IF events_endrx THEN <<rxd_amount>> ELSE rx_done
        /\ events_rxstarted' = (events_rxstarted /\ ~events_endrx)]_vars

\* An invocation found ENDTX with TXSTARTED clear (the transfer had been
\* stopped by a drop) and signalled tx_done.
C16_Witness ==
    /\ irqseen.ran /\ irqseen.endtx /\ ~irqseen.txstarted
    /\ tx_done = <<Unit>> /\ ~events_endtx

\* C18: a send or receive poll returns Ready only for an operation that has
\* itself issued a start command: the value it takes from the channel was
\* never signalled for a transfer of an earlier operation.
C18_ReadyOnlyForOwnTransfer ==
    (op \in {"send_poll", "recv_poll"} /\ result.kind = "Ready") => nstart > 0

\* A step that is one invocation of the state's on_interrupt.
OnInterruptStep == irq_pending /\ ~irq_pending' /\ irq_handler = "state"

\* with() is between its irq.disable() and its irq.enable().
InAccess == mop = "with" /\ mpc \in {"w_set_handler", "w_f", "w_enable"}

C13_ReleaseOnce ==
    /\ [](ndetach <= 1)
    /\ []((mop \in {"try_free", "free"} /\ mpc = "ret" /\ mres = "Some") =>
            (inner = "None" /\ ndetach = 1 /\ irq_handler = "none"))
    /\ [][(mop \in {"try_free", "free"} /\ mpc = "f_remove" /\ mpc' # mpc) =>
            (~irq_enabled /\ irq_handler' = "none" /\ mres' = "Some")]_vars
    /\ [][(MutexIdle /\ inner = "None" /\ mop' = "try_free") =>
            (mpc' = "ret" /\ mres' = "None"
             /\ UNCHANGED <<inner, irq_enabled, irq_handler, ndetach>>)]_vars
    /\ [][(MutexIdle /\ inner = "None" /\ mop' = "free") =>
            (mpc' = "aborted"
             /\ UNCHANGED <<inner, irq_enabled, irq_handler, ndetach>>)]_vars
    /\ [][(MutexIdle /\ inner = "None" /\ mop' = "drop") =>
            (mpc' = "dropped"
             /\ UNCHANGED <<inner, irq_enabled, irq_handler, ndetach>>)]_vars

\* A second try_free has returned None after the first one detached.
C13_Witness ==
    mop = "try_free" /\ mpc = "ret" /\ mres = "None" /\ ndetach = 1

\* The mutex has been released (the release has returned) or destroyed.
Gone ==
    \/ mpc = "dropped"
    \/ inner = "None" /\ mpc \notin {"f_disable", "f_remove"}

\* C17: once the mutex has been released or destroyed no handler is
\* attached to its interrupt, the line is disabled when the release or the
\* destruction returns, and on_interrupt is never entered again, even if the
\* interrupt fires later.
C17_NoHandlerAfterRelease ==
    /\ [](Gone => irq_handler = "none")
    /\ []((mop \in {"try_free", "free"} /\ mpc = "ret" /\ mres = "Some") =>
            ~irq_enabled)
    /\ []((mpc = "dropped" /\ inner = "Some") => ~irq_enabled)
    /\ [][Gone => ~OnInterruptStep]_vars

\* A mutex destroyed while it held its state: the interrupt has fired
\* since, and stays pending on a disabled line with no handler.
C17_Witness ==
    /\ mpc = "dropped" /\ inner = "Some" /\ ndetach = 1
    /\ irq_pending /\ ~irq_enabled /\ irq_handler = "none"

\* C19: with() on a released mutex aborts without a call on the interrupt
\* line and without running the closure; after a release no step of with,
\* try_free or free enables the line or attaches a handler.
C19_AccessAfterReleaseAborts ==
    /\ [][(MutexIdle /\ inner = "None" /\ mop' = "with") =>
            (mpc' = "aborted"
             /\ UNCHANGED <<irq_enabled, irq_pending, irq_handler, mstate>>)]_vars
    /\ [][(Gone /\ (mop # "none" \/ mop' # "none")) =>
            /\ (irq_enabled' => irq_enabled)
            /\ (irq_handler' = "state" => irq_handler = "state")]_vars
    /\ [](mpc = "aborted" => inner = "None")

\* with() was called on a released mutex and aborted.
C19_Witness ==
    /\ mop = "with" /\ mpc = "aborted" /\ inner = "None"
    /\ irq_handler = "none" /\ ndetach = 1

====
